---- MODULE Spec2Model ----
(***************************************************************************)
(* dp-geoeditors-viewer: the risk classification and redaction policy      *)
(* (utils.py, app.py) and the monthly ingestion (update_data.py).          *)
(*                                                                         *)
(* Encodings.                                                              *)
(*   - A "YYYY-MM" month string is the tuple of its six digits,            *)
(*     <<2,0,2,3,1,2>> for "2023-12"; strptime/strftime are computed on    *)
(*     the digits.                                                         *)
(*   - Python None as a country code is the value NoneCode.                *)
(*   - A missing / coerced-to-NaN editors value is the value NaN, an       *)
(*     integer no editor count of the modelled inputs takes.               *)
(*   - The confidence radii 2.72, 14.98, 29.96 are kept in hundredths.     *)
(***************************************************************************)
EXTENDS Integers, Sequences, FiniteSets, TLC

VARIABLES
    probe,             \* one row taken through get_risk_level / create_hover_text
    store,             \* the editor_data table: month -> rows, in insertion order
    last,              \* the last download_monthly_data run
    country_features,  \* utils.country_features: alpha-3 id -> feature properties
    response,          \* the last HTTP response (map_view / trends_view)
    now                \* datetime.now(), as <<year, month>>

vars == <<probe, store, last, country_features, response, now>>

(***************************************************************************)
(* Bounds of the model                                                     *)
(***************************************************************************)
MaxRows == 2            \* rows of a source TSV file
MaxProbeEditors == 31   \* small editor counts 0..MaxProbeEditors of a probed row

(***************************************************************************)
(* utils.py: static reference tables                                       *)
(***************************************************************************)
NoneCode == "<None>"

NaN == -(2^30)

\* dict, in insertion order: <<country, country_code>>
LEGACY_UNPUBLISHED ==
    << <<"Afghanistan", "AF">>, <<"Azerbaijan", "AZ">>, <<"Bahrain", "BH">>,
       <<"Bangladesh", "BD">>, <<"Belarus", "BY">>, <<"China", "CN">>,
       <<"Cuba", "CU">>, <<"Djibouti", "DJ">>, <<"Egypt", "EG">>,
       <<"Eritrea", "ER">>, <<"Ethiopia", "ET">>, <<"Honduras", "HN">>,
       <<"Iran", "IR">>, <<"Iraq", "IQ">>, <<"Kazakhstan", "KZ">>,
       <<"Kuwait", "KW">>, <<"Laos", "LA">>, <<"Myanmar", "MM">>,
       <<"Nicaragua", "NI">>, <<"North Korea", "KP">>, <<"Oman", "OM">>,
       <<"Pakistan", "PK">>, <<"Russia", "RU">>, <<"Rwanda", "RW">>,
       <<"Saudi Arabia", "SA">>, <<"Sudan", "SD">>, <<"Syria", "SY">>,
       <<"Thailand", "TH">>, <<"Turkey", "TR">>, <<"Turkmenistan", "TM">>,
       <<"United Arab Emirates", "AE">>, <<"Uzbekistan", "UZ">>,
       <<"Venezuela", "VE">>, <<"Vietnam", "VN">>, <<"Yemen", "YE">> >>

\* The current list with one entry left out.
CURRENT_UNPUBLISHED_NoMacau ==
    << <<"China", "CN">>, <<"Hong Kong", "HK">>, <<"Cuba", "CU">>,
       <<"Iran", "IR">>, <<"Myanmar", "MM">>,
       <<"North Korea", "KP">>, <<"Syria", "SY">>, <<"Vietnam", "VN">> >>

CURRENT_UNPUBLISHED ==
    << <<"China", "CN">>, <<"Hong Kong", "HK">>, <<"Cuba", "CU">>,
       <<"Iran", "IR">>, <<"Macau", "MO">>, <<"Myanmar", "MM">>,
       <<"North Korea", "KP">>, <<"Syria", "SY">>, <<"Vietnam", "VN">> >>

RiskNames == {"low", "medium", "high", "not_published"}

\* ci in hundredths; ci_none is "ci is None"
RISK_LEVELS ==
    [level \in RiskNames |->
        CASE level = "low"    -> [ci |-> 272,  ci_none |-> FALSE, can_show_edits |-> TRUE]
          [] level = "medium" -> [ci |-> 1498, ci_none |-> FALSE, can_show_edits |-> FALSE]
          [] level = "high"   -> [ci |-> 2996, ci_none |-> FALSE, can_show_edits |-> FALSE]
          [] OTHER            -> [ci |-> 0,    ci_none |-> TRUE,  can_show_edits |-> FALSE]]

MediumCountries ==
    {"AF", "AZ", "BD", "DJ", "ET", "HN", "IQ", "KZ", "KW", "LA", "NI", "OM",
     "PK", "PS", "SD", "TJ", "AE", "UZ", "VE", "YE"}

HighCountries == {"BH", "BY", "EG", "ER", "RU", "SA", "TR", "TM"}

NotPublishedCountries == {"CN", "HK", "CU", "IR", "MO", "MM", "KP", "SY", "VN"}

\* A variant with a code listed under two levels.
COUNTRY_RISK_LEVELS_Overlap ==
    << <<"medium", MediumCountries \cup {"CN"}>>,
       <<"high", HighCountries>>,
       <<"not_published", NotPublishedCountries>> >>

\* dict, in insertion order: <<level, set of codes>>
COUNTRY_RISK_LEVELS ==
    << <<"medium", MediumCountries>>,
       <<"high", HighCountries>>,
       <<"not_published", NotPublishedCountries>> >>

\* The for-loop of get_risk_level from entry i on.
RECURSIVE ScanRiskLevels(_, _)
ScanRiskLevels(country_code, i) ==
    IF i > Len(COUNTRY_RISK_LEVELS) THEN "low"
    ELSE IF country_code \in COUNTRY_RISK_LEVELS[i][2]
         THEN COUNTRY_RISK_LEVELS[i][1]
         ELSE ScanRiskLevels(country_code, i + 1)

\* get_risk_level without the test for the unknown sentinel.
get_risk_level_NoSentinel(country_code) ==
    ScanRiskLevels(country_code, 1)

get_risk_level(country_code) ==
    IF country_code = NoneCode \/ country_code = "--"
    THEN "not_published"
    ELSE ScanRiskLevels(country_code, 1)

\* pycountry's alpha_2 -> alpha_3 for the codes of the tables above and of
\* the modelled source rows.
Alpha3Table ==
    << <<"AF", "AFG">>, <<"AZ", "AZE">>, <<"BH", "BHR">>, <<"BD", "BGD">>,
       <<"BY", "BLR">>, <<"CN", "CHN">>, <<"CU", "CUB">>, <<"DJ", "DJI">>,
       <<"EG", "EGY">>, <<"ER", "ERI">>, <<"ET", "ETH">>, <<"HN", "HND">>,
       <<"IR", "IRN">>, <<"IQ", "IRQ">>, <<"KZ", "KAZ">>, <<"KW", "KWT">>,
       <<"LA", "LAO">>, <<"MM", "MMR">>, <<"NI", "NIC">>, <<"KP", "PRK">>,
       <<"OM", "OMN">>, <<"PK", "PAK">>, <<"RU", "RUS">>, <<"RW", "RWA">>,
       <<"SA", "SAU">>, <<"SD", "SDN">>, <<"SY", "SYR">>, <<"TH", "THA">>,
       <<"TR", "TUR">>, <<"TM", "TKM">>, <<"AE", "ARE">>, <<"UZ", "UZB">>,
       <<"VE", "VEN">>, <<"VN", "VNM">>, <<"YE", "YEM">>, <<"HK", "HKG">>,
       <<"MO", "MAC">>, <<"PS", "PSE">>, <<"TJ", "TJK">>, <<"US", "USA">>,
       <<"GB", "GBR">>, <<"IN", "IND">>, <<"DE", "DEU">>, <<"FR", "FRA">> >>

RecognisedCodes == {Alpha3Table[i][1] : i \in 1..Len(Alpha3Table)}

NoAlpha3 == "<None>"

alpha2_to_alpha3(alpha2) ==
    IF alpha2 = NoneCode \/ alpha2 = "--" THEN NoAlpha3
    ELSE IF alpha2 \in RecognisedCodes
         THEN LET i == CHOOSE j \in 1..Len(Alpha3Table) : Alpha3Table[j][1] = alpha2
              IN  Alpha3Table[i][2]
         ELSE NoAlpha3    \* AttributeError on None: caught

(***************************************************************************)
(* app.py: create_hover_text                                               *)
(***************************************************************************)
\* int() of the float n/100: truncation toward zero
IntOfHundredths(n) == IF n >= 0 THEN n \div 100 ELSE -((-n) \div 100)

Max2(a, b) == IF a >= b THEN a ELSE b

WithheldMessage == "Data not published for safety reasons"

\* create_hover_text with the lower bound left unclamped.
create_hover_text_NoClamp(row) ==
    LET risk_info == RISK_LEVELS[row.risk_level] IN
    IF row.risk_level = "not_published" \/ row.editors = -1
    THEN [kind |-> "withheld", country |-> row.country, text |-> WithheldMessage]
    ELSE IF row.editors = NaN
    THEN [kind |-> "raise"]
    ELSE IF ~risk_info.ci_none
    THEN [kind |-> "published", country |-> row.country, editors |-> row.editors,
          has_ci |-> TRUE,
          lower_ci |-> IntOfHundredths(row.editors * 100 - risk_info.ci),
          upper_ci |-> IntOfHundredths(row.editors * 100 + risk_info.ci)]
    ELSE [kind |-> "published", country |-> row.country, editors |-> row.editors,
          has_ci |-> FALSE, lower_ci |-> 0, upper_ci |-> 0]

\* create_hover_text that tests only the editors sentinel, not the risk level.
create_hover_text_NoRisk(row) ==
    LET risk_info == RISK_LEVELS[row.risk_level] IN
    IF row.editors = -1
    THEN [kind |-> "withheld", country |-> row.country, text |-> WithheldMessage]
    ELSE IF row.editors = NaN
    THEN [kind |-> "raise"]
    ELSE IF ~risk_info.ci_none
    THEN [kind |-> "published", country |-> row.country, editors |-> row.editors,
          has_ci |-> TRUE,
          lower_ci |-> Max2(0, IntOfHundredths(row.editors * 100 - risk_info.ci)),
          upper_ci |-> IntOfHundredths(row.editors * 100 + risk_info.ci)]
    ELSE [kind |-> "published", country |-> row.country, editors |-> row.editors,
          has_ci |-> FALSE, lower_ci |-> 0, upper_ci |-> 0]

\* The payload of the hover text: "withheld" is base_text + the withheld
\* message; "published" is base_text + "Editors: n" + "95% CI: lower to upper";
\* "raise" is the ValueError of int(NaN).
create_hover_text(row) ==
    LET risk_info == RISK_LEVELS[row.risk_level] IN
    IF row.risk_level = "not_published" \/ row.editors = -1
    THEN [kind |-> "withheld", country |-> row.country, text |-> WithheldMessage]
    ELSE IF row.editors = NaN
    THEN [kind |-> "raise"]
    ELSE IF ~risk_info.ci_none
    THEN [kind |-> "published", country |-> row.country, editors |-> row.editors,
          has_ci |-> TRUE,
          lower_ci |-> Max2(0, IntOfHundredths(row.editors * 100 - risk_info.ci)),
          upper_ci |-> IntOfHundredths(row.editors * 100 + risk_info.ci)]
    ELSE [kind |-> "published", country |-> row.country, editors |-> row.editors,
          has_ci |-> FALSE, lower_ci |-> 0, upper_ci |-> 0]

(***************************************************************************)
(* Months: "%Y-%m" strings and datetimes                                   *)
(***************************************************************************)
\* datetime.strptime(s, '%Y-%m'): the first day of the month, kept as <<year, month>>
StrpTime(s) == <<s[1] * 1000 + s[2] * 100 + s[3] * 10 + s[4], s[5] * 10 + s[6]>>

\* d.strftime('%Y-%m')
StrfTime(d) ==
    << d[1] \div 1000, (d[1] \div 100) % 10, (d[1] \div 10) % 10, d[1] % 10,
       d[2] \div 10, d[2] % 10 >>

\* datetime a < b, a <= b
DateLess(a, b) == a[1] < b[1] \/ (a[1] = b[1] /\ a[2] < b[2])

DateLessEq(a, b) == a = b \/ DateLess(a, b)

\* '2024-01'
CutoffMonth == <<2, 0, 2, 4, 0, 1>>

\* The test of download_monthly_data with <= for <.
UseLegacy_OffByOne(year_month) ==
    DateLessEq(StrpTime(year_month), StrpTime(CutoffMonth))

\* use_legacy = (current_date < cutoff_date)
UseLegacy(year_month) ==
    DateLess(StrpTime(year_month), StrpTime(CutoffMonth))

\* NextMonth with December followed by January of the same year.
NextMonth_SameYear(d) == IF d[2] = 12 THEN <<d[1], 1>> ELSE <<d[1], d[2] + 1>>

\* The month after d, December rolling over to January of the next year
NextMonth(d) == IF d[2] = 12 THEN <<d[1] + 1, 1>> ELSE <<d[1], d[2] + 1>>

\* The while loop of get_available_months from start_date on
RECURSIVE MonthsFrom(_, _)
MonthsFrom(start_date, current_date) ==
    IF DateLessEq(start_date, current_date)
    THEN <<StrfTime(start_date)>> \o MonthsFrom(NextMonth(start_date), current_date)
    ELSE <<>>

\* get_available_months(): start_date is the first of a month at 00:00, so
\* start_date <= current_date compares year and month only
get_available_months(current_date) == MonthsFrom(<<2023, 7>>, current_date)

\* The values datetime.now() takes in the model
Clock == { <<2024, 2>> }

(***************************************************************************)
(* update_data.py: add_unpublished_rows                                    *)
(***************************************************************************)
\* Series.unique(): the distinct values in order of first appearance
RECURSIVE Unique(_)
Unique(s) ==
    IF s = <<>> THEN <<>>
    ELSE LET rest == Unique(SubSeq(s, 1, Len(s) - 1))
             x    == s[Len(s)]
         IN  IF \E i \in 1..Len(rest) : rest[i] = x THEN rest ELSE Append(rest, x)

Column(df, f) == [i \in 1..Len(df) |-> df[i][f]]

\* The row appended for one (country, project, activity_level)
UnpublishedRow(entry, project, activity_level, month) ==
    [project |-> project, country |-> entry[1], country_code |-> entry[2],
     activity_level |-> activity_level, editors |-> -1, edits |-> 0,
     month |-> month]

\* add_unpublished_rows over the (project, activity_level) pairs of the rows.
add_unpublished_rows_Pairs(df, month, use_legacy) ==
    LET unpublished == IF use_legacy THEN LEGACY_UNPUBLISHED ELSE CURRENT_UNPUBLISHED
        pairs == Unique([i \in 1..Len(df) |-> <<df[i].project, df[i].activity_level>>])
        nP == Len(pairs)
        new_rows ==
            [k \in 1..(Len(unpublished) * nP) |->
                UnpublishedRow(unpublished[((k - 1) \div nP) + 1],
                               pairs[((k - 1) % nP) + 1][1],
                               pairs[((k - 1) % nP) + 1][2], month)]
    IN  IF new_rows # <<>> THEN df \o new_rows ELSE df

\* The three nested loops, in loop order: country, project, activity level.
add_unpublished_rows(df, month, use_legacy) ==
    LET unpublished == IF use_legacy THEN LEGACY_UNPUBLISHED ELSE CURRENT_UNPUBLISHED
        projects == Unique(Column(df, "project"))
        activity_levels == Unique(Column(df, "activity_level"))
        nP == Len(projects)
        nA == Len(activity_levels)
        new_rows ==
            [k \in 1..(Len(unpublished) * nP * nA) |->
                UnpublishedRow(unpublished[((k - 1) \div (nP * nA)) + 1],
                               projects[(((k - 1) \div nA) % nP) + 1],
                               activity_levels[((k - 1) % nA) + 1], month)]
    IN  IF new_rows # <<>> THEN df \o new_rows ELSE df

(***************************************************************************)
(* update_data.py: download_monthly_data, against the editor_data table    *)
(***************************************************************************)
\* The months the table is modelled for
StoreMonths == { <<2, 0, 2, 3, 1, 2>>, <<2, 0, 2, 4, 0, 1>>, <<2, 0, 2, 4, 0, 2>> }

StoreDates == { StrpTime(ym) : ym \in StoreMonths }

\* editor_data with no row
EmptyStore == [d \in StoreDates |-> <<>>]

\* df['month'] = pd.to_datetime(df['month'], format='%Y-%m')
ToDatetime(df) == [i \in 1..Len(df) |-> [df[i] EXCEPT !.month = StrpTime(@)]]

\* db.bulk_insert_mappings: every record is appended to the table, here to
\* the rows of its month
BulkInsert(table, records) ==
    [d \in DOMAIN table |->
        LET OfMonth(r) == r.month = d
        IN  table[d] \o SelectSeq(records, OfMonth)]

\* The try block without the delete: the records are added to the table.
CommitMonth_NoDelete(table, frame) ==
    IF frame = <<>> THEN table ELSE BulkInsert(table, frame)

\* The try block: delete the rows of the month of the first row, insert all
\* records, commit.  An empty frame raises (iloc[0]) and is rolled back.
CommitMonth(table, frame) ==
    IF frame = <<>> THEN table
    ELSE BulkInsert([table EXCEPT ![frame[1].month] = <<>>], frame)

\* The frame download_monthly_data prepares from the source rows df
PreparedFrame(year_month, df) ==
    ToDatetime(add_unpublished_rows(df, year_month, UseLegacy(year_month)))

NoRun == [status |-> "none"]

\* The record of a run that reached the commit
RunRecord(year_month, df) ==
    [status |-> "ok", year_month |-> year_month,
     use_legacy |-> UseLegacy(year_month),
     df |-> df,
     out |-> add_unpublished_rows(df, year_month, UseLegacy(year_month))]

(***************************************************************************)
(* utils.py: country_features, the GeoJSON lookup (module state)           *)
(***************************************************************************)
\* The ids of the downloaded GeoJSON file among the modelled countries: the
\* file has no feature for Hong Kong, Macau or Bahrain.
FeatureIds ==
    {Alpha3Table[i][2] : i \in 1..Len(Alpha3Table)} \ {"HKG", "MAC", "BHR"}

\* country_features after import: the properties of the file (its name
\* property stood for by the id)
InitFeatures == [id \in FeatureIds |-> [name |-> id]]

NoResponse == [kind |-> "none"]

NoProbe == [stage |-> "none"]

(***************************************************************************)
(* Specification SpecRow: one row through the classifier and formatter     *)
(***************************************************************************)
ProbeCodes ==
    RecognisedCodes \cup {"RW", "TH", "--", NoneCode, "ZZ", "XX", "", "cn", "CHN", "U", "99"}

ProbeEditors == {NaN, -1, 1000} \cup (0..MaxProbeEditors)

ProbeCountries == {"China", "Elsewhere"}

InitRow ==
    /\ probe \in {[stage |-> "input", country |-> n, country_code |-> c, editors |-> e] :
                    n \in ProbeCountries, c \in ProbeCodes, e \in ProbeEditors}
    /\ store = EmptyStore
    /\ last = NoRun
    /\ country_features = InitFeatures
    /\ response = NoResponse
    /\ now \in Clock

\* filtered_df['risk_level'] = filtered_df['country_code'].apply(get_risk_level)
Classify ==
    /\ probe.stage = "input"
    /\ probe' = [stage |-> "classified", country |-> probe.country,
                 country_code |-> probe.country_code, editors |-> probe.editors,
                 risk_level |-> get_risk_level(probe.country_code)]
    /\ UNCHANGED <<store, last, country_features, response, now>>

\* filtered_df['hover_text'] = filtered_df.apply(create_hover_text, axis=1)
FormatRow ==
    /\ probe.stage = "classified"
    /\ probe' = [stage |-> "formatted", country |-> probe.country,
                 country_code |-> probe.country_code, editors |-> probe.editors,
                 risk_level |-> probe.risk_level,
                 hover_text |-> create_hover_text(probe)]
    /\ UNCHANGED <<store, last, country_features, response, now>>

NextRow == Classify \/ FormatRow

SpecRow == InitRow /\ [][NextRow]_vars

(***************************************************************************)
(* Claims on the classifier and the formatter (under SpecRow)              *)
(***************************************************************************)
IsSentinel(country_code) == country_code = NoneCode \/ country_code = "--"

Classified == probe.stage \in {"classified", "formatted"}

\* C3, as stated: get_risk_level never raises and returns not_published for
\* the unknown sentinel (None, '--') and for every unknown or malformed code
\* (a string that is not a recognised ISO alpha-2 code).
C3_UnknownIsNotPublished ==
    Classified =>
        /\ probe.risk_level \in RiskNames
        /\ (IsSentinel(probe.country_code) \/ probe.country_code \notin RecognisedCodes)
              => probe.risk_level = "not_published"

\* C3, amended: get_risk_level never raises (it always returns one of the four
\* levels); it returns not_published for the unknown sentinel (None, '--'),
\* and low for every other unknown or malformed code.
C3_SentinelNotPublishedElseLow ==
    Classified =>
        /\ probe.risk_level \in RiskNames
        /\ IsSentinel(probe.country_code) => probe.risk_level = "not_published"
        /\ (~IsSentinel(probe.country_code) /\ probe.country_code \notin RecognisedCodes)
              => probe.risk_level = "low"

C3_Witness ==
    /\ Classified
    /\ probe.country_code = "ZZ"
    /\ probe.risk_level = "low"

RiskSetsDisjoint ==
    \A i, j \in 1..Len(COUNTRY_RISK_LEVELS) :
        i # j => COUNTRY_RISK_LEVELS[i][2] \cap COUNTRY_RISK_LEVELS[j][2] = {}

\* The level is exactly the set the code is a member of, low when in none
LevelIsMembership(country_code, level) ==
    /\ level = "medium" <=> country_code \in MediumCountries
    /\ level = "high" <=> country_code \in HighCountries
    /\ level = "not_published" <=> country_code \in NotPublishedCountries
    /\ level = "low" <=>
          country_code \notin (MediumCountries \cup HighCountries \cup NotPublishedCountries)

\* C4, as stated: the three sets are pairwise disjoint and, for every code,
\* get_risk_level returns medium, high or not_published exactly when the code
\* is a member of that set, and low for every code in none of them.
C4_LevelIsMembership ==
    /\ RiskSetsDisjoint
    /\ Classified => LevelIsMembership(probe.country_code, probe.risk_level)

\* C4, amended: the same for every code other than the unknown sentinel (None,
\* '--'), which is in none of the sets and is classified not_published.
C4_LevelIsMembershipExceptSentinel ==
    /\ RiskSetsDisjoint
    /\ (Classified /\ ~IsSentinel(probe.country_code))
          => LevelIsMembership(probe.country_code, probe.risk_level)
    /\ (Classified /\ IsSentinel(probe.country_code))
          => probe.risk_level = "not_published"

C4_Witness ==
    /\ Classified
    /\ probe.country_code = "RU"
    /\ probe.risk_level = "high"

\* The radius of the claim, in hundredths
C5_Radius(level) ==
    CASE level = "low" -> 272 [] level = "medium" -> 1498 [] level = "high" -> 2996

\* C5: a non-withheld row with editors >= 0 and risk level low, medium or high
\* is shown with the range [max(0, trunc(editors - radius)), trunc(editors +
\* radius)]: the lower bound is never negative and never above editors, the
\* upper bound never below editors; editors = 1000 at medium gives 985 to
\* 1014, editors = 2 at low gives lower bound 0.
C5_DisplayRange ==
    (/\ probe.stage = "formatted"
     /\ probe.risk_level \in {"low", "medium", "high"}
     /\ probe.editors >= 0)
    => LET h == probe.hover_text
           e == probe.editors
           r == C5_Radius(probe.risk_level)
       IN  /\ h.kind = "published"
           /\ h.has_ci
           /\ h.editors = e
           /\ h.lower_ci >= 0 /\ h.lower_ci <= e /\ h.upper_ci >= e
           /\ 100 * h.lower_ci <= Max2(0, 100 * e - r)
           /\ Max2(0, 100 * e - r) < 100 * h.lower_ci + 100
           /\ 100 * h.upper_ci <= 100 * e + r
           /\ 100 * e + r < 100 * h.upper_ci + 100
           /\ (e = 1000 /\ probe.risk_level = "medium")
                 => (h.lower_ci = 985 /\ h.upper_ci = 1014)
           /\ (e = 2 /\ probe.risk_level = "low") => h.lower_ci = 0

C5_Witness ==
    /\ probe.stage = "formatted"
    /\ probe.editors = 1000
    /\ probe.risk_level = "medium"
    /\ probe.hover_text.kind = "published"
    /\ probe.hover_text.lower_ci = 985
    /\ probe.hover_text.upper_ci = 1014

(***************************************************************************)
(* Specification SpecIngest: runs of download_monthly_data                 *)
(***************************************************************************)
\* A row of a source TSV file for year_month
SourceRow(project, country, country_code, activity_level, editors, year_month) ==
    [project |-> project, country |-> country, country_code |-> country_code,
     activity_level |-> activity_level, editors |-> editors, edits |-> 12,
     month |-> year_month]

\* All frames of at most n rows over the row set rows
Frames(rows, n) == UNION {[1..k -> rows] : k \in 0..n}

\* The source rows of SpecIngest: two rows that share neither project nor
\* activity level, one of them of a withheld country, for the two months
\* around the cutover; the first row alone for any other month.
IngestRows(year_month) ==
    { SourceRow("en.wikipedia", "United States", "US", "1 to 4", 1000, year_month) }
    \cup
    IF year_month \in { <<2, 0, 2, 3, 1, 2>>, <<2, 0, 2, 4, 0, 1>> }
    THEN { SourceRow("de.wikipedia", "China", "CN", "5 to 99", 7, year_month) }
    ELSE {}

InitIngest ==
    /\ probe = NoProbe
    /\ store = EmptyStore
    /\ last = NoRun
    /\ country_features = InitFeatures
    /\ response = NoResponse
    /\ now \in Clock

\* download_monthly_data returns False before the frame is built: the file
\* cannot be read or downloaded
DownloadLoadError(year_month) ==
    /\ last' = [status |-> "load_failed", year_month |-> year_month]
    /\ UNCHANGED <<probe, store, country_features, response, now>>

\* The try block raises (always for an empty frame, whose iloc[0] fails):
\* db.rollback(), return False
DownloadDbError(year_month) ==
    /\ last' = [status |-> "db_failed", year_month |-> year_month]
    /\ UNCHANGED <<probe, store, country_features, response, now>>

\* download_monthly_data returns True: the month is replaced and committed
DownloadCommit(year_month, df) ==
    LET frame == PreparedFrame(year_month, df) IN
    /\ frame # <<>>
    /\ store' = CommitMonth(store, frame)
    /\ last' = RunRecord(year_month, df)
    /\ UNCHANGED <<probe, country_features, response, now>>

DownloadMonthlyData(year_month, frames) ==
    \/ DownloadLoadError(year_month)
    \/ DownloadDbError(year_month)
    \/ \E df \in frames : DownloadCommit(year_month, df)

NextIngest ==
    \E year_month \in StoreMonths :
        DownloadMonthlyData(year_month, Frames(IngestRows(year_month), MaxRows))

SpecIngest == InitIngest /\ [][NextIngest]_vars

(***************************************************************************)
(* Claims on the ingestion (under SpecIngest)                              *)
(***************************************************************************)
RanOk == last.status = "ok"

\* The rows add_unpublished_rows appended to the source rows in the last run
Synthetic == SubSeq(last.out, Len(last.df) + 1, Len(last.out))

CountRows(rows, c, p, a) ==
    Cardinality({i \in 1..Len(rows) :
                    /\ rows[i].country_code = c
                    /\ rows[i].project = p
                    /\ rows[i].activity_level = a})

ColumnSet(rows, f) == {rows[i][f] : i \in 1..Len(rows)}

PairSet(rows) == {<<rows[i].project, rows[i].activity_level>> : i \in 1..Len(rows)}

LegacyCodes == {LEGACY_UNPUBLISHED[i][2] : i \in 1..Len(LEGACY_UNPUBLISHED)}

CurrentCodes == {CURRENT_UNPUBLISHED[i][2] : i \in 1..Len(CURRENT_UNPUBLISHED)}

\* A month strictly before 2024-01, read off the digits of "YYYY-MM"
BeforeCutover(ym) ==
    LET year  == 1000 * ym[1] + 100 * ym[2] + 10 * ym[3] + ym[4]
        month == 10 * ym[5] + ym[6]
    IN  year < 2024 \/ (year = 2024 /\ month < 1)

\* The withheld countries of a month
WithheldCodes(ym) == IF BeforeCutover(ym) THEN LegacyCodes ELSE CurrentCodes

\* C6, as stated: exactly one synthetic row, with editors = -1, per (withheld
\* country, project, activity_level) combination not already present in the
\* month's source data and none for one already present; so no combination
\* occurs more than once after synthesis unless duplicated in the source.
C6_OneRowPerAbsentCombination ==
    RanOk =>
        /\ \A i \in 1..Len(Synthetic) : Synthetic[i].editors = -1
        /\ \A c \in WithheldCodes(last.year_month) :
           \A p \in ColumnSet(last.df, "project") :
           \A a \in ColumnSet(last.df, "activity_level") :
              /\ CountRows(Synthetic, c, p, a) =
                    IF CountRows(last.df, c, p, a) > 0 THEN 0 ELSE 1
              /\ CountRows(last.out, c, p, a) > 1 => CountRows(last.df, c, p, a) > 1

\* C7, as stated: for a withheld country the synthetic rows cover exactly the
\* (project, activity_level) pairs that occur together in the month's organic
\* rows.
C7_SyntheticPairsOccurTogether ==
    RanOk =>
        \A c \in WithheldCodes(last.year_month) :
            LET OfCountry(r) == r.country_code = c
            IN  PairSet(SelectSeq(Synthetic, OfCountry)) = PairSet(last.df)

\* C7, amended: for a withheld country the synthetic rows cover exactly the
\* cross product of the projects and the activity levels of the month's
\* organic rows, also the pairs that never occur together in an organic row;
\* synthetic rows are made for withheld countries only.
C7_SyntheticPairsAreCrossProduct ==
    RanOk =>
        /\ ColumnSet(Synthetic, "country_code") \subseteq WithheldCodes(last.year_month)
        /\ \A c \in WithheldCodes(last.year_month) :
              LET OfCountry(r) == r.country_code = c
              IN  PairSet(SelectSeq(Synthetic, OfCountry)) =
                     ColumnSet(last.df, "project") \X ColumnSet(last.df, "activity_level")

C7_Witness ==
    /\ RanOk
    /\ \E i \in 1..Len(Synthetic) :
          /\ Synthetic[i].country_code = "IR"
          /\ <<Synthetic[i].project, Synthetic[i].activity_level>> \notin PairSet(last.df)

\* C8: the withheld-country list used for synthesis depends only on the
\* ingested month: the legacy list for every month strictly before 2024-01,
\* the current list for every month at or after it, 2024-01 included.
C8_ListByMonth ==
    RanOk =>
        /\ last.use_legacy = BeforeCutover(last.year_month)
        /\ ColumnSet(Synthetic, "country_code") =
              IF BeforeCutover(last.year_month) THEN LegacyCodes ELSE CurrentCodes
        /\ last.year_month = <<2, 0, 2, 4, 0, 1>> =>
              /\ ~last.use_legacy
              /\ ColumnSet(Synthetic, "country_code") = CurrentCodes

C8_Witness ==
    /\ RanOk
    /\ last.year_month = <<2, 0, 2, 4, 0, 1>>
    /\ ~last.use_legacy
    /\ "HK" \in ColumnSet(Synthetic, "country_code")
    /\ "RU" \notin ColumnSet(Synthetic, "country_code")

\* The countries a run synthesised rows for
SyntheticCountries == {<<Synthetic[i].country, Synthetic[i].country_code>> : i \in 1..Len(Synthetic)}

DistinctCodes(countries) ==
    /\ Cardinality({e[2] : e \in countries}) = Cardinality(countries)
    /\ Cardinality({e[1] : e \in countries}) = Cardinality(countries)

\* C9, as stated: the legacy list holds 36 countries and the current list 9,
\* each with a distinct country code.
C9_ListSizes36And9 ==
    RanOk =>
          /\ Len(LEGACY_UNPUBLISHED) = 36
          /\ Len(CURRENT_UNPUBLISHED) = 9
          /\ Cardinality(SyntheticCountries) = IF last.use_legacy THEN 36 ELSE 9
          /\ DistinctCodes(SyntheticCountries)

\* C9, amended: the legacy list holds 35 countries and the current list 9,
\* each with a distinct country code.
C9_ListSizes35And9 ==
    /\ Len(LEGACY_UNPUBLISHED) = 35
    /\ Len(CURRENT_UNPUBLISHED) = 9
    /\ RanOk =>
          /\ Cardinality(SyntheticCountries) = IF last.use_legacy THEN 35 ELSE 9
          /\ DistinctCodes(SyntheticCountries)

C9_Witness ==
    /\ RanOk
    /\ last.use_legacy
    /\ Cardinality(ColumnSet(Synthetic, "country_code")) = 35

(***************************************************************************)
(* app.py: map_view                                                        *)
(***************************************************************************)
\* request.args.get('month') is None
NoMonth == <<>>

\* The query without the filter on activity_level.
QueryMonth_AnyActivity(table, month_date, activity_level, project) ==
    LET Match(r) == r.project = project
    IN  IF month_date \in DOMAIN table THEN SelectSeq(table[month_date], Match) ELSE <<>>

\* db.query(EditorData).filter(month, activity_level, project).all()
QueryMonth(table, month_date, activity_level, project) ==
    LET Match(r) == r.activity_level = activity_level /\ r.project = project
    IN  IF month_date \in DOMAIN table THEN SelectSeq(table[month_date], Match) ELSE <<>>

\* A row of filtered_df with country_code_alpha3, editors (pd.to_numeric:
\* a missing value is NaN) and risk_level
EnrichRow(r) ==
    [country |-> r.country, country_code |-> r.country_code, editors |-> r.editors,
     activity_level |-> r.activity_level, project |-> r.project,
     country_code_alpha3 |-> alpha2_to_alpha3(r.country_code),
     risk_level |-> get_risk_level(r.country_code)]

\* The frame left as it is, no editors value overwritten.
MaskNotPublished_Unmasked(rows) == rows

\* filtered_df.loc[filtered_df['risk_level'] == 'not_published', 'editors'] = -1
MaskNotPublished(rows) ==
    [i \in 1..Len(rows) |->
        IF rows[i].risk_level = "not_published" THEN [rows[i] EXCEPT !.editors = -1]
                                                ELSE rows[i]]

\* filtered_df[filtered_df['editors'] > 0]['editors']  (NaN > 0 is False)
PositiveEditors(rows) ==
    {rows[i].editors : i \in {j \in 1..Len(rows) : rows[j].editors # NaN /\ rows[j].editors > 0}}

MaxOf(S) == CHOOSE x \in S : \A y \in S : y <= x

MinOf(S) == CHOOSE x \in S : \A y \in S : x <= y

\* math.ceil(m / 100) * 100
CeilToHundred(m) == ((m + 99) \div 100) * 100

DarkGrey == <<"#404040">>

\* get_color: dark grey for NaN and -1, else the colour of the log scale at
\* (log10(editors) - log10(min)) / (log10(max) - log10(min)), kept as the
\* triple that determines it
get_color(editors, min_editors, max_editors) ==
    IF editors = NaN \/ editors = -1 THEN DarkGrey
    ELSE <<"scale", editors, min_editors, max_editors>>

\* The indices of the rows whose alpha-3 code is a key of country_features
FeatureRowIndices(rows, cf) ==
    LET HasFeature(i) == rows[i].country_code_alpha3 \in DOMAIN cf
    IN  SelectSeq([i \in 1..Len(rows) |-> i], HasFeature)

\* The features list as folium serialises it: every feature holds the
\* properties dict of country_features, read when the map is rendered
RenderFeatures(built, cf) ==
    [k \in 1..Len(built) |-> [id |-> built[k].id, properties |-> cf[built[k].id]]]

\* The for loop that builds the features.  feature = country_features[id].copy()
\* is a shallow copy: feature['properties'] is the dict of country_features
\* itself, so update() writes into country_features and every feature of one id
\* shows the properties written last.  int(NaN) raises.
\*   built:     the properties each iteration wrote
\*   features:  the features as they are when rendered
BuildFeatures(rows, hover, cf) ==
    LET idx    == FeatureRowIndices(rows, cf)
        nans   == {k \in 1..Len(idx) : rows[idx[k]].editors = NaN}
        done   == IF nans = {} THEN Len(idx) ELSE MinOf(nans) - 1
        built  == [k \in 1..done |->
                     [row |-> idx[k], id |-> rows[idx[k]].country_code_alpha3,
                      name |-> rows[idx[k]].country,
                      editors |-> rows[idx[k]].editors,
                      hover_text |-> hover[idx[k]]]]
        newcf  == [id \in DOMAIN cf |->
                     LET ks == {k \in 1..done : built[k].id = id}
                     IN  IF ks = {} THEN cf[id]
                         ELSE [name |-> built[MaxOf(ks)].name,
                               editors |-> built[MaxOf(ks)].editors,
                               hover_text |-> built[MaxOf(ks)].hover_text]]
    IN  [raised |-> nans # {},
         built |-> built,
         country_features |-> newcf,
         features |-> RenderFeatures(built, newcf)]

\* The response of map_view and the country_features it leaves.
\*   status 200: the rendered map; 404: "No data ..."; 500: an exception
map_view(table, cf, current_date, month_arg, activity_level, project) ==
    LET months == get_available_months(current_date)
        known  == month_arg # NoMonth /\ \E i \in 1..Len(months) : months[i] = month_arg
        req    == [month |-> month_arg, activity_level |-> activity_level,
                   project |-> project]
    IN
    IF months = <<>>
    THEN [country_features |-> cf,
          response |-> [kind |-> "map", request |-> req,
                        status |-> 404, stage |-> "months"]]
    ELSE IF ~known /\ Len(months) < 2    \* months[-2]: IndexError, outside the try
    THEN [country_features |-> cf,
          response |-> [kind |-> "map", request |-> req,
                        status |-> 500, stage |-> "months"]]
    ELSE
    LET month   == IF known THEN month_arg ELSE months[Len(months) - 1]
        results == QueryMonth(table, StrpTime(month), activity_level, project)
        frame   == [i \in 1..Len(results) |-> EnrichRow(results[i])]
        hover   == [i \in 1..Len(frame) |-> create_hover_text(frame[i])]
        rows    == MaskNotPublished(frame)
        loop    == BuildFeatures(rows, hover, cf)
        max_editors == CeilToHundred(MaxOf(PositiveEditors(rows)))
    IN
    IF results = <<>>
    THEN [country_features |-> cf,
          response |-> [kind |-> "map", request |-> req,
                        status |-> 404, stage |-> "query",
                        month |-> month, results |-> results]]
    ELSE IF \E i \in 1..Len(hover) : hover[i].kind = "raise"
    THEN [country_features |-> cf,
          response |-> [kind |-> "map", request |-> req,
                        status |-> 500, stage |-> "hover_text",
                        month |-> month, results |-> results]]
    ELSE IF PositiveEditors(rows) = {}   \* max() is NaN: math.ceil raises
    THEN [country_features |-> cf,
          response |-> [kind |-> "map", request |-> req,
                        status |-> 500, stage |-> "max_editors",
                        month |-> month, results |-> results, rows |-> rows,
                        hover_text |-> hover]]
    ELSE IF loop.raised
    THEN [country_features |-> loop.country_features,
          response |-> [kind |-> "map", request |-> req,
                        status |-> 500, stage |-> "features",
                        month |-> month, results |-> results, rows |-> rows,
                        hover_text |-> hover, built |-> loop.built]]
    ELSE [country_features |-> loop.country_features,
          response |-> [kind |-> "map", request |-> req,
                        status |-> 200, stage |-> "rendered",
                        month |-> month, results |-> results, rows |-> rows,
                        hover_text |-> hover, max_editors |-> max_editors,
                        built |-> loop.built, features |-> loop.features,
                        colors |-> [k \in 1..Len(loop.features) |->
                                      get_color(loop.features[k].properties.editors,
                                                1, max_editors)]]]

(***************************************************************************)
(* app.py: trends_view                                                     *)
(***************************************************************************)
\* The months of the table in ascending order
SortedDates(table) ==
    LET ds == DOMAIN table
        Rank(d) == Cardinality({e \in ds : DateLess(e, d)}) + 1
    IN  [k \in 1..Cardinality(ds) |-> CHOOSE d \in ds : Rank(d) = k]

RECURSIVE ConcatMonths(_, _, _)
ConcatMonths(table, dates, k) ==
    IF k > Len(dates) THEN <<>>
    ELSE table[dates[k]] \o ConcatMonths(table, dates, k + 1)

\* db.query(EditorData).filter(activity_level, project,
\*     country_code.in_(countries)).order_by(EditorData.month).all()
QueryTrends(table, activity_level, project, countries) ==
    LET Match(r) == /\ r.activity_level = activity_level
                    /\ r.project = project
                    /\ \E i \in 1..Len(countries) : countries[i] = r.country_code
    IN  SelectSeq(ConcatMonths(table, SortedDates(table), 1), Match)

\* A row of combined_df
TrendRow(r) ==
    [country |-> r.country, country_code |-> r.country_code, editors |-> r.editors,
     month |-> StrfTime(r.month)]

\* The traces of one country_name: the published segment (editors != -1),
\* then the unpublished segment (editors == -1).  A trace keeps, per point,
\* the code of the row it plots.
CountryTraces(combined_df, country_name) ==
    LET OfCountry(r)   == r.country = country_name
        country_data   == SelectSeq(combined_df, OfCountry)
        country_code   == country_data[1].country_code
        risk_info      == RISK_LEVELS[get_risk_level(country_code)]
        Published(r)   == r.editors # -1
        Unpublished(r) == r.editors = -1
        published_data   == SelectSeq(country_data, Published)
        unpublished_data == SelectSeq(country_data, Unpublished)
        most_recent_count == country_data[Len(country_data)].editors
        published_trace ==
            [name |-> country_name, segment |-> "published",
             most_recent_count |-> most_recent_count,
             error_y |-> IF risk_info.ci_none THEN 0 ELSE risk_info.ci,
             points |-> [i \in 1..Len(published_data) |->
                           [country_code |-> published_data[i].country_code,
                            month |-> published_data[i].month,
                            y |-> published_data[i].editors,
                            hovertext |-> [kind |-> "published",
                                           country_code |-> country_code,
                                           editors |-> published_data[i].editors,
                                           ci_none |-> risk_info.ci_none,
                                           ci |-> risk_info.ci]]]]
        unpublished_trace ==
            [name |-> country_name, segment |-> "unpublished",
             most_recent_count |-> most_recent_count,
             points |-> [i \in 1..Len(unpublished_data) |->
                           [country_code |-> unpublished_data[i].country_code,
                            month |-> unpublished_data[i].month,
                            y |-> 0,
                            hovertext |-> [kind |-> "withheld",
                                           text |-> WithheldMessage]]]]
    IN  [raised |-> \E i \in 1..Len(published_data) : published_data[i].editors = NaN,
         traces |-> (IF published_data # <<>> THEN <<published_trace>> ELSE <<>>)
                    \o (IF unpublished_data # <<>> THEN <<unpublished_trace>> ELSE <<>>)]

\* The traces of the countries names[k..], in loop order
RECURSIVE AllTraces(_, _, _)
AllTraces(combined_df, names, k) ==
    IF k > Len(names) THEN <<>>
    ELSE CountryTraces(combined_df, names[k]).traces \o AllTraces(combined_df, names, k + 1)

\* traces.sort(key=lambda x: x[0], reverse=True): stable, descending
SortTraces(traces) ==
    LET Before(j, i) ==
            \/ traces[j].most_recent_count > traces[i].most_recent_count
            \/ traces[j].most_recent_count = traces[i].most_recent_count /\ j < i
        Rank(i) == Cardinality({j \in 1..Len(traces) : Before(j, i)}) + 1
    IN  [k \in 1..Len(traces) |-> traces[CHOOSE i \in 1..Len(traces) : Rank(i) = k]]

\* The response of trends_view
trends_view(table, countries_arg, activity_level, project) ==
    LET countries == IF countries_arg = <<>> /\ project = "en.wikipedia"
                     THEN <<"US", "GB", "IN">> ELSE countries_arg
        results   == QueryTrends(table, activity_level, project, countries)
        combined_df == [i \in 1..Len(results) |-> TrendRow(results[i])]
        names     == Unique(Column(combined_df, "country"))
    IN
    IF countries = <<>>
    THEN [kind |-> "trends", status |-> 200, plot |-> "select_countries"]
    ELSE IF results = <<>>
    THEN [kind |-> "trends", status |-> 200, plot |-> "no_data"]
    ELSE IF \E k \in 1..Len(names) : CountryTraces(combined_df, names[k]).raised
    THEN [kind |-> "trends", status |-> 500, results |-> results]
    ELSE [kind |-> "trends", status |-> 200, plot |-> "figure", results |-> results,
          traces |-> SortTraces(AllTraces(combined_df, names, 1))]

(***************************************************************************)
(* Specification SpecView: requests against a table holding one ingested   *)
(* month                                                                   *)
(***************************************************************************)
ViewMonths == { <<2, 0, 2, 3, 1, 2>>, <<2, 0, 2, 4, 0, 1>> }

\* The source rows of SpecView: one project and activity level; a low-risk
\* country with a missing, a withheld, a small and a large count; a
\* not_published country with a large and a small count; a high-risk and
\* an unknown ('--') country with a count
ViewRows(year_month) ==
    { SourceRow("en.wikipedia", "United States", "US", "1 to 4", e, year_month) :
        e \in {NaN, -1, 2, 1000} }
    \cup
    { SourceRow("en.wikipedia", "China", "CN", "1 to 4", 1000, year_month),
      SourceRow("en.wikipedia", "China", "CN", "1 to 4", 2, year_month),
      SourceRow("en.wikipedia", "Russia", "RU", "1 to 4", 1000, year_month),
      SourceRow("en.wikipedia", "Unknown", "--", "1 to 4", 1000, year_month) }

\* The table and the run record after download_monthly_data(year_month) on df
InitView ==
    /\ probe = NoProbe
    /\ \E year_month \in ViewMonths :
       \E df \in Frames(ViewRows(year_month), MaxRows) :
          /\ store = CommitMonth(EmptyStore, PreparedFrame(year_month, df))
          /\ last = IF df = <<>> THEN [status |-> "db_failed", year_month |-> year_month]
                                 ELSE RunRecord(year_month, df)
    /\ country_features = InitFeatures
    /\ response = NoResponse
    /\ now \in Clock

MapMonthArgs ==
    { NoMonth, <<2, 0, 2, 3, 0, 8>>, <<2, 0, 2, 3, 1, 2>>, <<2, 0, 2, 4, 0, 1>>,
      <<1, 9, 9, 9, 0, 1>> }

ActivityArgs == { "1 to 4", "5 to 99" }

\* GET /map?month=..&activity_level=..&project=..
MapView(month_arg, activity_level, project) ==
    LET r == map_view(store, country_features, now, month_arg, activity_level, project)
    IN  /\ response' = r.response
        /\ country_features' = r.country_features
        /\ UNCHANGED <<probe, store, last, now>>

TrendsCountryArgs == { <<>>, <<"CN">>, <<"US", "CN", "RU">> }

\* GET /trends?countries=..&activity_level=..&project=..
TrendsView(countries_arg, activity_level, project) ==
    /\ response' = trends_view(store, countries_arg, activity_level, project)
    /\ UNCHANGED <<probe, store, last, country_features, now>>

NextView ==
    \/ \E month_arg \in MapMonthArgs, activity_level \in ActivityArgs :
          MapView(month_arg, activity_level, "en.wikipedia")
    \/ \E countries_arg \in TrendsCountryArgs,
          project \in {"en.wikipedia", "de.wikipedia"} :
          TrendsView(countries_arg, "1 to 4", project)

SpecView == InitView /\ [][NextView]_vars

(***************************************************************************)
(* Claims on the views (under SpecView)                                    *)
(***************************************************************************)
\* The map responses in which the hover texts were computed
MapFormatted == response.kind = "map" /\ "hover_text" \in DOMAIN response

\* A hover payload that is the withheld message, with no count and no range
IsWithheldPayload(h) ==
    /\ h.kind = "withheld"
    /\ h.text = "Data not published for safety reasons"
    /\ DOMAIN h \cap {"editors", "lower_ci", "upper_ci"} = {}

\* C1: in map_view, every row whose country code classifies as not_published
\* or whose raw editors value is -1 gets the withheld message, with no editor
\* count and no confidence interval, as its hover text, and the feature built
\* for the row is given editors = -1 and that hover text, whatever the raw
\* editors value; for a not_published row the rendered feature shows them too.
C1_WithheldRowsAreRedacted ==
    MapFormatted =>
        \A i \in 1..Len(response.results) :
            LET raw == response.results[i] IN
            (\/ raw.country_code \in NotPublishedCountries
             \/ IsSentinel(raw.country_code)
             \/ response.rows[i].risk_level = "not_published"
             \/ raw.editors = -1)
            => /\ IsWithheldPayload(response.hover_text[i])
               /\ response.rows[i].editors = -1
               /\ "built" \in DOMAIN response =>
                     \A k \in 1..Len(response.built) :
                        response.built[k].row = i =>
                           /\ response.built[k].editors = -1
                           /\ IsWithheldPayload(response.built[k].hover_text)
                           /\ response.rows[i].risk_level = "not_published" =>
                                 LET shown == response.features[k].properties IN
                                 /\ shown.editors = -1
                                 /\ IsWithheldPayload(shown.hover_text)

C1_Witness ==
    /\ response.kind = "map"
    /\ response.status = 200
    /\ \E i \in 1..Len(response.results) :
          /\ response.results[i].country_code = "CN"
          /\ response.results[i].editors = 1000
          /\ IsWithheldPayload(response.hover_text[i])
          /\ \E k \in 1..Len(response.built) :
                /\ response.built[k].row = i
                /\ response.built[k].editors = -1

\* C2, as stated: in trends_view every row of a country whose code classifies
\* as not_published is in the unpublished segment, plotted at 0 with the
\* withheld hover text, whatever its raw editors value; its raw count is in no
\* published trace or hover text.
C2_NotPublishedRowsAreWithheld ==
    (response.kind = "trends" /\ "traces" \in DOMAIN response) =>
        \A t \in 1..Len(response.traces) :
            \A j \in 1..Len(response.traces[t].points) :
                LET point == response.traces[t].points[j] IN
                get_risk_level(point.country_code) = "not_published"
                => /\ response.traces[t].segment = "unpublished"
                   /\ point.y = 0
                   /\ point.hovertext.kind = "withheld"

\* C10, as stated: a map request whose row set holds a row with a missing or
\* non-numeric editors value (NaN) still renders a map, in which that row has
\* the dark-grey colour of a row with editors = -1; it does not end in an
\* error.
C10_NaNRowRendersGrey ==
    (/\ response.kind = "map"
     /\ "results" \in DOMAIN response
     /\ \E i \in 1..Len(response.results) : response.results[i].editors = NaN)
    => /\ response.status = 200
       /\ \A i \in 1..Len(response.results) :
             response.results[i].editors = NaN =>
                \A k \in 1..Len(response.built) :
                   response.built[k].row = i => response.colors[k] = <<"#404040">>

(***************************************************************************)
(* Specification SpecRace: two map_view requests served by threads of one  *)
(* process.  A request runs up to the end of its feature loop              *)
(* (app.py:33-156), then renders (app.py:159-262); the other thread may    *)
(* run between the two.  country_features is shared by the threads.        *)
(***************************************************************************)
RaceLen == 1            \* rows of each of the two source files of SpecRace

Threads == {1, 2}

RaceMonths == << <<2, 0, 2, 3, 1, 2>>, <<2, 0, 2, 4, 0, 1>> >>

\* The source rows of SpecRace: one published country with a small or a
\* large count, and a high-risk country
RaceRows(year_month) ==
    { SourceRow("en.wikipedia", "United States", "US", "1 to 4", 2, year_month),
      SourceRow("en.wikipedia", "United States", "US", "1 to 4", 1000, year_month),
      SourceRow("en.wikipedia", "Russia", "RU", "1 to 4", 1000, year_month) }

Idle == [pc |-> "idle"]

\* The table after download_monthly_data on a file for each of the two months
InitRace ==
    /\ probe = [stage |-> "threads", threads |-> [t \in Threads |-> Idle]]
    /\ \E df1 \in Frames(RaceRows(RaceMonths[1]), RaceLen) \ {<<>>},
          df2 \in Frames(RaceRows(RaceMonths[2]), RaceLen) \ {<<>>} :
          /\ store = CommitMonth(CommitMonth(EmptyStore,
                                             PreparedFrame(RaceMonths[1], df1)),
                                 PreparedFrame(RaceMonths[2], df2))
          /\ last = RunRecord(RaceMonths[2], df2)
    /\ country_features = InitFeatures
    /\ response = NoResponse
    /\ now \in Clock

\* Thread t runs map_view up to the end of the feature loop: the loop has
\* written the rows of the request into country_features; the features list
\* is held by the thread
RaceBuild(t, month_arg) ==
    LET r == map_view(store, country_features, now, month_arg, "1 to 4", "en.wikipedia")
    IN  /\ probe.threads[t].pc = "idle"
        /\ r.response.status = 200
        /\ probe' = [probe EXCEPT !.threads[t] =
                        [pc |-> "built", pending |-> r.response]]
        /\ country_features' = r.country_features
        /\ UNCHANGED <<store, last, response, now>>

\* Thread t renders: folium serialises the features of the thread, reading
\* the properties dicts as they are now
RaceRender(t) ==
    LET pending  == probe.threads[t].pending
        features == RenderFeatures(pending.built, country_features)
    IN  /\ probe.threads[t].pc = "built"
        /\ response' = [pending EXCEPT
                          !.features = features,
                          !.colors = [k \in 1..Len(features) |->
                                        get_color(features[k].properties.editors,
                                                  1, pending.max_editors)]]
        /\ probe' = [probe EXCEPT !.threads[t] = Idle]
        /\ UNCHANGED <<store, last, country_features, now>>

NextRace ==
    \E t \in Threads :
        \/ \E i \in 1..Len(RaceMonths) : RaceBuild(t, RaceMonths[i])
        \/ RaceRender(t)

SpecRace == InitRace /\ [][NextRace]_vars

(***************************************************************************)
(* Claims on concurrent requests (under SpecRace)                          *)
(***************************************************************************)
\* The properties the feature loop of a request writes for row i
OwnProperties(resp, i) ==
    [name |-> resp.rows[i].country, editors |-> resp.rows[i].editors,
     hover_text |-> resp.hover_text[i]]

\* Every rendered feature shows a row of the request itself
RendersOwnRows(resp) ==
    \A k \in 1..Len(resp.features) :
        \E i \in 1..Len(resp.rows) :
            /\ resp.rows[i].country_code_alpha3 = resp.features[k].id
            /\ resp.features[k].properties = OwnProperties(resp, i)

\* C11, as stated: under any interleaving of two map_view requests every
\* feature rendered for a request carries the name, editors value and hover
\* text of a row of that request for that country, and the requests leave
\* the country_features lookup as it was loaded.
C11_RequestsAreIndependent ==
    /\ country_features = InitFeatures
    /\ (response.kind = "map" /\ response.status = 200) => RendersOwnRows(response)

(***************************************************************************)
(* Claims on the outcome of map_view (under SpecView)                      *)
(***************************************************************************)
\* The rows the table holds for the month a request resolved to and for
\* its activity level and project
HeldRows(resp) ==
    LET d == StrpTime(resp.month) IN
    IF d \in DOMAIN store
    THEN {i \in 1..Len(store[d]) :
             /\ store[d][i].activity_level = resp.request.activity_level
             /\ store[d][i].project = resp.request.project}
    ELSE {}

\* C12: a map request ends with 404 when the table holds no row for its
\* (month, activity_level, project), never with 500 or a rendered map, and
\* does not end with 404 when the table holds a row for them.
C12_NotFoundIffNoRows ==
    (response.kind = "map" /\ "month" \in DOMAIN response) =>
        /\ HeldRows(response) = {} => response.status = 404
        /\ HeldRows(response) # {} => response.status # 404

C12_Witness ==
    /\ response.kind = "map"
    /\ response.status = 404
    /\ response.request.activity_level = "5 to 99"
    /\ HeldRows(response) = {}
    /\ StrpTime(response.month) \in DOMAIN store
    /\ store[StrpTime(response.month)] # <<>>

\* C13, as stated: once the hover texts of a non-empty row set are made, the
\* scale maximum is defined: it is the largest positive editors count after
\* masking, rounded up to a multiple of 100 and at least 100; the request
\* renders, and every feature that is not grey has 1 <= editors <= maximum.
C13_ScaleDefinedAndCovers ==
    (MapFormatted /\ response.results # <<>>) =>
        /\ response.status = 200
        /\ "max_editors" \in DOMAIN response
        /\ response.max_editors >= 100
        /\ response.max_editors % 100 = 0
        /\ \A i \in 1..Len(response.rows) :
              response.rows[i].editors # NaN => response.rows[i].editors <= response.max_editors
        /\ \E i \in 1..Len(response.rows) :
              /\ response.rows[i].editors > 0
              /\ response.max_editors - 100 < response.rows[i].editors
        /\ \A k \in 1..Len(response.features) :
              response.colors[k] # DarkGrey =>
                 /\ 1 <= response.features[k].properties.editors
                 /\ response.features[k].properties.editors <= response.max_editors

(***************************************************************************)
(* Claims on what a stored count of a not_published country can influence  *)
(***************************************************************************)
\* The table with the editors value of every row of a not_published country
\* replaced by -1
Scrub(table) ==
    [d \in DOMAIN table |->
        [i \in 1..Len(table[d]) |->
            IF get_risk_level(table[d][i].country_code) = "not_published"
            THEN [table[d][i] EXCEPT !.editors = -1]
            ELSE table[d][i]]]

\* What a map response shows: all of it but the rows as queried
Shown(resp) == [f \in DOMAIN resp \ {"results"} |-> resp[f]]

\* C14: the map output does not depend on the editors values stored for
\* not_published countries: the response to a request shows the same status,
\* hover texts, feature editors values, scale maximum and colours as the
\* response to the same request over the table in which those values are
\* replaced, so any two tables that differ only in those values give the
\* same output.
C14_WithheldCountsDoNotInfluence ==
    response.kind = "map" =>
        Shown(response) =
            Shown(map_view(Scrub(store), country_features, now,
                           response.request.month,
                           response.request.activity_level,
                           response.request.project).response)

C14_Witness ==
    /\ response.kind = "map"
    /\ response.status = 200
    /\ response.max_editors = 100
    /\ \E i \in 1..Len(response.results) :
          /\ response.results[i].country_code = "CN"
          /\ response.results[i].editors = 1000
    /\ \E i \in 1..Len(response.results) :
          /\ response.results[i].country_code = "US"
          /\ response.results[i].editors = 2

(***************************************************************************)
(* Claims on repeated ingestion (under SpecIngest)                         *)
(***************************************************************************)
\* The rows of a month are those of one ingestion of that month, or none
OneIngestionPerMonth ==
    \A ym \in StoreMonths :
        \/ store[StrpTime(ym)] = <<>>
        \/ \E df \in Frames(IngestRows(ym), MaxRows) :
              store[StrpTime(ym)] = PreparedFrame(ym, df)

\* Ingesting the data of the last successful run once more changes nothing
ReingestionChangesNothing ==
    RanOk => CommitMonth(store, PreparedFrame(last.year_month, last.df)) = store

\* What one run does to the table: a successful run leaves exactly its
\* prepared rows for its month, a failed run leaves the table as it was, and
\* neither touches another month
RunReplacesItsMonthOnly ==
    /\ last'.status = "ok" =>
          /\ store'[StrpTime(last'.year_month)] = ToDatetime(last'.out)
          /\ \A d \in StoreDates \ {StrpTime(last'.year_month)} : store'[d] = store[d]
    /\ last'.status \in {"db_failed", "load_failed"} => store' = store

\* C15: download_monthly_data replaces a month atomically: after any
\* sequence of runs each month holds the rows of at most one ingestion of it;
\* a successful run leaves exactly the newly prepared rows of its month
\* (ingesting the same data again gives the same table), a failed run leaves
\* the rows stored before, and the rows of every other month are unchanged.
C15_MonthReplacedAtomically ==
    /\ [](OneIngestionPerMonth /\ ReingestionChangesNothing)
    /\ [][RunReplacesItsMonthOnly]_vars

\* A run failed in the database step on a month that holds rows, with
\* another month ingested as well
C15_Witness ==
    /\ last.status = "db_failed"
    /\ store[StrpTime(last.year_month)] # <<>>
    /\ \E d \in StoreDates \ {StrpTime(last.year_month)} : store[d] # <<>>

(***************************************************************************)
(* Specification SpecMonths: the loop of get_available_months, one         *)
(* iteration a step (probe holds start_date and months)                    *)
(***************************************************************************)
MaxClockMonths == 30    \* current dates: 2023-07 and the months after it

\* The first value of start_date: datetime(2023, 7, 1)
StartDate == <<2023, 7>>

\* The calendar month k months after d, counted in months since year 0
MonthIndex(d) == d[1] * 12 + (d[2] - 1)

MonthOfIndex(n) == <<n \div 12, (n % 12) + 1>>

InitMonths ==
    /\ now \in {MonthOfIndex(MonthIndex(StartDate) + k) : k \in 0..(MaxClockMonths - 1)}
    /\ probe = [stage |-> "loop", start_date |-> StartDate, months |-> <<>>]
    /\ store = EmptyStore
    /\ last = NoRun
    /\ country_features = InitFeatures
    /\ response = NoResponse

\* while start_date <= current_date: append, advance
LoopAppend ==
    /\ probe.stage = "loop"
    /\ DateLessEq(probe.start_date, now)
    /\ probe' = [probe EXCEPT !.months = Append(@, StrfTime(probe.start_date)),
                              !.start_date = NextMonth(@)]
    /\ UNCHANGED <<store, last, country_features, response, now>>

\* return months
LoopReturn ==
    /\ probe.stage = "loop"
    /\ ~DateLessEq(probe.start_date, now)
    /\ probe' = [probe EXCEPT !.stage = "returned"]
    /\ UNCHANGED <<store, last, country_features, response, now>>

NextMonths == LoopAppend \/ LoopReturn

\* The loop is run by one thread that is not stopped: weak fairness
SpecMonths == InitMonths /\ [][NextMonths]_vars /\ WF_vars(NextMonths)

(***************************************************************************)
(* Claims on get_available_months (under SpecMonths)                       *)
(***************************************************************************)
\* The i-th calendar month from 2023-07 on, as "%Y-%m"
CalendarMonth(i) == StrfTime(MonthOfIndex(MonthIndex(StartDate) + i - 1))

\* The months appended so far are the calendar months from 2023-07 on, in
\* order, each once, without a gap
MonthsAreCalendarPrefix ==
    \A i \in 1..Len(probe.months) : probe.months[i] = CalendarMonth(i)

\* The returned list ends with the current month and is the list map_view
\* gets
ReturnsUpToCurrentMonth ==
    probe.stage = "returned" =>
        /\ Len(probe.months) = MonthIndex(now) - MonthIndex(StartDate) + 1
        /\ probe.months[Len(probe.months)] = StrfTime(now)
        /\ \A i \in 1..(Len(probe.months) - 1) :
              DateLess(StrpTime(probe.months[i]), StrpTime(probe.months[i + 1]))
        /\ probe.months = get_available_months(now)

\* C16: for every current date on or after 2023-07 get_available_months
\* terminates and returns the calendar months from 2023-07 up to and
\* including the current month, strictly ascending, each once, with no gap,
\* December followed by January of the next year.
C16_MonthsCompleteAndTerminates ==
    /\ [](MonthsAreCalendarPrefix /\ ReturnsUpToCurrentMonth)
    /\ <>(probe.stage = "returned")

\* The list returned in 2024-02: eight months, 2023-12 followed by 2024-01
C16_Witness ==
    /\ probe.stage = "returned"
    /\ now = <<2024, 2>>
    /\ Len(probe.months) = 8
    /\ probe.months[6] = <<2, 0, 2, 3, 1, 2>>
    /\ probe.months[7] = <<2, 0, 2, 4, 0, 1>>

(***************************************************************************)
(* Claims on the month a map request uses (under SpecView)                 *)
(***************************************************************************)
\* C17, as stated: when the month parameter of a map request is absent or
\* not an available month, the month queried is the most recent available
\* month; when it is an available month, that month is queried.
C17_DefaultIsMostRecentMonth ==
    (response.kind = "map" /\ "month" \in DOMAIN response) =>
        LET months == get_available_months(now)
            known  == \E i \in 1..Len(months) : months[i] = response.request.month
        IN  /\ known => response.month = response.request.month
            /\ ~known => response.month = months[Len(months)]

====
